---- MODULE Spec2Model ----
(***************************************************************************)
(* BuildSystemTerminal: the terminal process handle (AsyncTerminalProcess), *)
(* its log tailer (Terminal.stdout) and the build orchestrator             *)
(* (TerminalExecCommand) with its output queue.                             *)
(*                                                                         *)
(* Threads: one UI thread (run, service_text_queue and finish are UI-loop   *)
(* callbacks and never overlap one another) and one background thread per   *)
(* handle (_process_output).  Steps are split wherever another thread can   *)
(* observe the difference: the check-then-act in kill, the two reads of     *)
(* self.listener, the exists-then-remove in clear_cache, and the window     *)
(* between the handle's constructor and its registration as producer.      *)
(* run is modelled with input_prompt = False (terminal_exec.py line 393).   *)
(***************************************************************************)
EXTENDS Integers, Sequences, FiniteSets, TLC

\* ---------------------------------------------------------------- constants
BLOCK_SIZE == 16384
None == 0

\* lengths of the fixed texts the orchestrator appends
CancelledLen == 11
FinishedLen == 17
FinishedErrLen == 32
FinishedPlainLen == 10

\* ------------------------------------------------------------------- bounds
MaxRequests == 2     \* run() calls: starts, invalid starts and kill requests
MaxLines == 1        \* lines written to the log files, over all runs

H == 1..MaxRequests

QueueLines == 3      \* lines written by the one run of SpecQueue

\* the lines the user command writes: length, and how many "\r\n" pairs
ShortLines == { [len |-> 2, crlf |-> 1] }
LongLines == { [len |-> 1, crlf |-> 0], [len |-> BLOCK_SIZE - 1, crlf |-> 0],
               [len |-> BLOCK_SIZE, crlf |-> 0],
               [len |-> BLOCK_SIZE + 2, crlf |-> 1] }
DebugLens == {40}
ErrorLens == {20}

VARIABLES
  \* AsyncTerminalProcess / Terminal, per handle
  killed,            \* AsyncTerminalProcess.killed
  listener,          \* AsyncTerminalProcess.listener is not None
  running,           \* Terminal.running: the OS process has not exited
  logfile,           \* the log file exists on disk
  written,           \* lines the tee stage has written to the log file
  rpos,              \* the tailer's file offset, in lines
  tpc,               \* position of the handle's background thread
  terminates,        \* number of Terminal.terminate() calls made by kill()
  onFinished,        \* number of listener.on_finished calls
  \* TerminalExecCommand
  proc,              \* self.proc
  quiet,             \* self.quiet
  text_queue,        \* sequence of blocks; a block is a sequence of strings
  text_queue_proc,   \* the legitimate producer
  text_queue_lock,   \* None when free, else the handle whose thread holds it
  upc,               \* position of the UI thread inside run()
  svcPending,        \* scheduled service_text_queue timeouts
  finPending,        \* handles with a scheduled finish callback
  panel,             \* text delivered to the output panel
  \* history
  passed,            \* strings passed to append_string since the last panel reset
  accepted,          \* strings append_string put into the queue, likewise
  nStart, nKill, nInvalid,
  superseded,        \* handles that existed when a later start cleared the queue
  overlapped,        \* ... and whose process was alive and unkilled at that start
  cancelled,         \* handles that were self.proc, with a live process, when a
                     \* kill request arrived
  idleKill,          \* the latest kill request arrived with no run active
  \* run()'s arguments and outcome
  request,           \* cmd and shell_cmd of the latest run() call
  raised,            \* the exception that left the latest run() call, or "none"
  PATH,              \* os.environ["PATH"], a sequence of directories
  \* on_data's argument and what it hands to append_string, as characters
  data, string,
  \* Terminal.__init__: os.environ, the env argument, and self.env once built
  environ, env, self_env,
  \* the console and the error index
  console,           \* for each "Running ..." line printed, the start's number
  errs_by_file,      \* self.errs_by_file: file -> its matched results, in order
  show_errors_inline,
  hidden,            \* history: hide_phantoms was requested since the last start
  \* append_string's locals, per calling thread
  cur,               \* the tail block popped for merging, not yet re-appended
  was_empty,         \* the call found the queue empty
  \* one TerminalExecCommand per window
  instances          \* window -> its proc, text_queue_proc, panel and drains

vars == << killed, listener, running, logfile, written, rpos, tpc, terminates,
           onFinished, proc, quiet, text_queue, text_queue_proc,
           text_queue_lock, upc, svcPending, finPending, panel, passed,
           accepted, nStart, nKill, nInvalid, superseded, overlapped,
           cancelled, idleKill, request, raised, PATH, data, string,
           environ, env, self_env, console, errs_by_file,
           show_errors_inline, hidden, cur, was_empty, instances >>

\* what the queue, the handles and their threads neither read nor write
nlVars == << data, string >>
envVars == << environ, env, self_env >>
reqVars == << request, raised, PATH >>
panelVars == << console, errs_by_file, show_errors_inline, hidden >>
lockVars == << cur, was_empty >>
extVars == << reqVars, nlVars, envVars, panelVars, lockVars, instances >>

handleVars == << killed, listener, running, logfile, written, rpos, tpc,
                 terminates, onFinished >>
queueVars == << text_queue, svcPending, passed, accepted >>
histVars == << nStart, nKill, nInvalid, superseded, overlapped, cancelled,
              idleKill >>

\* ------------------------------------------------------------------ strings
\* A string is a record: who produced it, what it is, and its length.
DataString(h, n, line) ==
  [src |-> h, kind |-> "data", n |-> n, len |-> line.len - line.crlf]
Text(h, kind, len) == [src |-> h, kind |-> kind, n |-> 0, len |-> len]

RECURSIVE BlockLen(_)
BlockLen(b) == IF b = << >> THEN 0 ELSE Head(b).len + BlockLen(Tail(b))

RECURSIVE Flatten(_)
Flatten(q) == IF q = << >> THEN << >> ELSE Head(q) \o Flatten(Tail(q))

IsPrefix(s, t) == Len(s) <= Len(t) /\ SubSeq(t, 1, Len(s)) = s

\* ------------------------------------------------------------- append_string
\* the producer-identity test of append_string, negated: the string is taken
WrongProducer(p, tqp) == p # tqp /\ p # None
\* mutant: the identity test is missing
ProducerAlwaysOK(p, tqp) == TRUE
ProducerOK(p, tqp) == ~WrongProducer(p, tqp)

\* mutant: the tail block's length is not subtracted
MergeFitsEmptyBlock(slen, available) == slen < BLOCK_SIZE
\* mutant: a string that exactly fills the room left is merged
MergeFitsAtCap(slen, available) == slen <= available
\* a string is merged into the tail block when it is shorter than the room left
MergeFits(slen, available) == slen < available

\* mutant: the merge re-appends the string without the popped tail block
EnqueueLosesTail(q, s) ==
  LET q1 == IF Len(q) = 0 THEN << << >> >> ELSE q
      last == Len(q1)
      available == BLOCK_SIZE - BlockLen(q1[last])
  IN  IF MergeFits(s.len, available)
        THEN [q1 EXCEPT ![last] = << s >>]
        ELSE Append(q1, << s >>)

\* the queue after one accepted append_string
Enqueue(q, s) ==
  LET q1 == IF Len(q) = 0 THEN << << >> >> ELSE q
      last == Len(q1)
      available == BLOCK_SIZE - BlockLen(q1[last])
  IN  IF MergeFits(s.len, available)
        THEN [q1 EXCEPT ![last] = Append(@, s)]
        ELSE Append(q1, << s >>)

RECURSIVE EnqueueAll(_, _)
EnqueueAll(q, strs) ==
  IF strs = << >> THEN q ELSE EnqueueAll(Enqueue(q, Head(strs)), Tail(strs))

\* was_empty: the append found the queue empty and schedules a drain
WasEmpty(q, strs) == IF Len(q) = 0 /\ strs # << >> THEN 1 ELSE 0

\* ----------------------------------------------------- kill() and terminate()
\* kill() past its "if not self.killed" test: the flag is set and
\* Terminal.terminate() is entered, which ends the OS process if it is running
KillSet(h) ==
  /\ killed' = [killed EXCEPT ![h] = TRUE]
  /\ terminates' = [terminates EXCEPT ![h] = @ + 1]
  /\ running' = [running EXCEPT ![h] = FALSE]

\* clear_cache(): os.remove after os.path.exists returned True
RemoveLog(h) == logfile' = [logfile EXCEPT ![h] = FALSE]

\* kill()'s last statement
Detach(h) == listener' = [listener EXCEPT ![h] = FALSE]

\* ---------------------------------------------------------------------- Init
InitProgram ==
  /\ killed = [h \in H |-> FALSE]
  /\ listener = [h \in H |-> FALSE]
  /\ running = [h \in H |-> FALSE]
  /\ logfile = [h \in H |-> FALSE]
  /\ written = [h \in H |-> << >>]
  /\ rpos = [h \in H |-> 0]
  /\ tpc = [h \in H |-> "none"]
  /\ terminates = [h \in H |-> 0]
  /\ onFinished = [h \in H |-> 0]
  /\ proc = None
  /\ quiet = FALSE
  /\ text_queue = << >>
  /\ text_queue_proc = None
  /\ text_queue_lock = None
  /\ upc = "idle"
  /\ svcPending = 0
  /\ finPending = {}
  /\ panel = << >>
  /\ passed = << >>
  /\ accepted = << >>
  /\ nStart = 0
  /\ nKill = 0
  /\ nInvalid = 0
  /\ superseded = [h \in H |-> FALSE]
  /\ overlapped = [h \in H |-> FALSE]
  /\ cancelled = [h \in H |-> FALSE]
  /\ idleKill = FALSE
  /\ request = [cmd |-> "None", shell_cmd |-> "None"]
  /\ raised = "none"
  /\ PATH = << "usr" >>
  /\ console = << >>
  /\ errs_by_file = << >>
  /\ show_errors_inline = TRUE
  /\ hidden = FALSE
  /\ cur = [h \in H |-> << >>]
  /\ was_empty = [h \in H |-> FALSE]

Init ==
  /\ InitProgram
  /\ data = << >> /\ string = << >>
  /\ environ = << >> /\ env = << >> /\ self_env = << >>
  /\ instances = << >>

\* ------------------------------------------------------- UI thread: run(...)
Existing(h) == tpc[h] # "none"
Alive(h) == running[h] /\ ~killed[h]
Requests == nStart + nKill + nInvalid
ThreadEnded(h) == tpc[h] \in {"done", "err_attr", "err_fnf"}
\* no run is active: none was started, or the last one has finished (thread
\* ended, finish callback run, process gone) or was cancelled
NoActiveRun ==
  \/ proc = None
  \/ /\ ThreadEnded(proc) /\ proc \notin finPending /\ ~running[proc]

\* run(cmd=...): queue cleared, request accepted, the output panel created
\* anew (line 342), AsyncTerminalProcess constructed (terminal spawned, log
\* file created, thread started).  "Running ..." is printed to the console,
\* not appended to the queue.
StartConstruct(qt, budget) ==
  /\ upc = "idle" /\ text_queue_lock = None /\ Requests < budget
  /\ LET h == nStart + 1 IN
       /\ killed' = [killed EXCEPT ![h] = FALSE]
       /\ listener' = [listener EXCEPT ![h] = TRUE]
       /\ running' = [running EXCEPT ![h] = TRUE]
       /\ logfile' = [logfile EXCEPT ![h] = TRUE]
       /\ tpc' = [tpc EXCEPT ![h] = "start"]
  /\ text_queue' = << >>
  /\ text_queue_proc' = None
  /\ proc' = None
  /\ quiet' = qt
  /\ panel' = << >> /\ passed' = << >> /\ accepted' = << >>
  /\ nStart' = nStart + 1
  /\ superseded' = [h \in H |-> superseded[h] \/ Existing(h)]
  /\ overlapped' = [h \in H |-> overlapped[h] \/ Alive(h)]
  /\ upc' = "reg"
  /\ UNCHANGED << written, rpos, terminates, onFinished, text_queue_lock,
                  svcPending, finPending, nKill, nInvalid, cancelled,
                  idleKill >>

\* _start_process after the constructor returned: self.proc and, under the
\* lock, text_queue_proc
StartRegister ==
  /\ upc = "reg" /\ text_queue_lock = None
  /\ proc' = nStart
  /\ text_queue_proc' = nStart
  /\ upc' = "idle"
  /\ UNCHANGED << handleVars, queueVars, histVars, quiet, text_queue_lock,
                  finPending, panel >>

\* mutant: "[Finished]" is appended whatever quiet is
LaunchFailStringsAlwaysFinished(qt, elen, dlen) ==
  << Text(None, "error", elen), Text(None, "debug", dlen),
     Text(None, "finished", FinishedPlainLen) >>

\* the texts the except branch of _start_process appends: str(e), debug_text
\* and, unless quiet, "[Finished]"
LaunchFailStrings(qt, elen, dlen) ==
  << Text(None, "error", elen), Text(None, "debug", dlen) >>
    \o (IF qt THEN << >> ELSE << Text(None, "finished", FinishedPlainLen) >>)

\* run(cmd=...) whose AsyncTerminalProcess constructor raises: the except
\* branch of _start_process
StartFail(qt, elen, dlen, budget) ==
  /\ upc = "idle" /\ text_queue_lock = None /\ Requests < budget
  /\ LET strs == LaunchFailStrings(qt, elen, dlen)
     IN /\ text_queue' = EnqueueAll(<< >>, strs)
        /\ svcPending' = svcPending + 1
        /\ passed' = strs /\ accepted' = strs
  /\ text_queue_proc' = None
  /\ proc' = None
  /\ quiet' = qt
  /\ panel' = << >>
  /\ nStart' = nStart + 1
  /\ superseded' = [h \in H |-> superseded[h] \/ Existing(h)]
  /\ overlapped' = [h \in H |-> overlapped[h] \/ Alive(h)]
  /\ UNCHANGED << handleVars, text_queue_lock, upc, finPending, nKill,
                  nInvalid, cancelled, idleKill >>

\* run() with neither cmd nor shell_cmd, or a non-string shell_cmd: the queue
\* is cleared, then ValueError is raised
StartInvalid ==
  /\ upc = "idle" /\ text_queue_lock = None /\ Requests < MaxRequests
  /\ text_queue' = << >>
  /\ text_queue_proc' = None
  /\ nInvalid' = nInvalid + 1
  /\ UNCHANGED << handleVars, proc, quiet, text_queue_lock, upc, svcPending,
                  finPending, panel, passed, accepted, nStart, nKill,
                  superseded, overlapped, cancelled, idleKill >>

\* run(kill=True): the queue is cleared
KillClear ==
  /\ upc = "idle" /\ text_queue_lock = None /\ Requests < MaxRequests
  /\ text_queue' = << >>
  /\ text_queue_proc' = None
  /\ nKill' = nKill + 1
  /\ cancelled' = [h \in H |-> cancelled[h] \/ (h = proc /\ running[h])]
  /\ idleKill' = NoActiveRun
  /\ upc' = "uk_chk"
  /\ UNCHANGED << handleVars, proc, quiet, text_queue_lock, svcPending,
                  finPending, panel, passed, accepted, nStart, nInvalid,
                  superseded, overlapped >>

\* "if self.proc:" and, inside kill(), "if not self.killed:"
KillCheck ==
  /\ upc = "uk_chk"
  /\ upc' = IF proc = None THEN "idle"
            ELSE IF killed[proc] THEN "uk_fin" ELSE "uk_set"
  /\ UNCHANGED << handleVars, queueVars, histVars, proc, quiet,
                  text_queue_proc, text_queue_lock, finPending, panel >>

KillTerminate ==
  /\ upc = "uk_set"
  /\ KillSet(proc)
  /\ upc' = IF logfile[proc] THEN "uk_rm" ELSE "uk_det"
  /\ UNCHANGED << listener, logfile, written, rpos, tpc, onFinished, queueVars,
                  histVars, proc, quiet, text_queue_proc, text_queue_lock,
                  finPending, panel >>

\* os.remove in clear_cache; FileNotFoundError is not caught and leaves run()
KillRemove ==
  /\ upc = "uk_rm"
  /\ IF logfile[proc]
       THEN RemoveLog(proc) /\ upc' = "uk_det"
       ELSE UNCHANGED logfile /\ upc' = "idle"
  /\ UNCHANGED << killed, listener, running, written, rpos, tpc, terminates,
                  onFinished, queueVars, histVars, proc, quiet,
                  text_queue_proc, text_queue_lock, finPending, panel >>

KillDetach ==
  /\ upc = "uk_det"
  /\ Detach(proc)
  /\ upc' = "uk_fin"
  /\ UNCHANGED << killed, running, logfile, written, rpos, tpc, terminates,
                  onFinished, queueVars, histVars, proc, quiet,
                  text_queue_proc, text_queue_lock, finPending, panel >>

\* self.proc = None; self.append_string(None, "[Cancelled]")
KillFinish ==
  /\ upc = "uk_fin" /\ text_queue_lock = None
  /\ proc' = None
  /\ LET strs == << Text(None, "cancelled", CancelledLen) >> IN
       /\ text_queue' = EnqueueAll(text_queue, strs)
       /\ svcPending' = svcPending + WasEmpty(text_queue, strs)
       /\ passed' = passed \o strs /\ accepted' = accepted \o strs
  /\ upc' = "idle"
  /\ UNCHANGED << handleVars, histVars, quiet, text_queue_proc,
                  text_queue_lock, finPending, panel >>

\* ------------------------------------------- UI thread: scheduled callbacks
\* service_text_queue: one block to the panel, re-post unless the queue is empty
service_text_queue ==
  /\ upc = "idle" /\ text_queue_lock = None /\ svcPending > 0
  /\ IF Len(text_queue) = 0
       THEN /\ svcPending' = svcPending - 1
            /\ UNCHANGED << text_queue, panel >>
       ELSE LET characters == Head(text_queue)
                is_empty == Len(Tail(text_queue)) = 0
            IN /\ text_queue' = Tail(text_queue)
               /\ panel' = panel \o characters
               /\ svcPending' = svcPending - 1 + (IF is_empty THEN 0 ELSE 1)
  /\ UNCHANGED << handleVars, histVars, proc, quiet, text_queue_proc,
                  text_queue_lock, upc, finPending, passed, accepted >>

\* mutant: with errors, only the debug text is appended
FinishStringsNoErrorSummary(h, errs, dlen) ==
  IF quiet THEN << >>
  ELSE IF errs = 0 THEN << Text(h, "finished", FinishedLen) >>
  ELSE << Text(h, "debug", dlen) >>

\* the texts finish() appends for errs matched results
FinishStrings(h, errs, dlen) ==
  IF quiet THEN << >>
  ELSE IF errs = 0 THEN << Text(h, "finished", FinishedLen) >>
  ELSE << Text(h, "finished", FinishedErrLen), Text(h, "debug", dlen) >>

\* finish(proc), scheduled by on_finished.  A string refused by append_string
\* makes it call proc.kill(); the handle's thread has ended by then, so that
\* kill runs alone.
finish(h, errs, dlen) ==
  /\ upc = "idle" /\ h \in finPending
  /\ finPending' = finPending \ {h}
  /\ LET strs == IF h # proc THEN << >> ELSE FinishStrings(h, errs, dlen) IN
       IF strs = << >>
         THEN UNCHANGED << handleVars, queueVars >>
         ELSE /\ text_queue_lock = None
              /\ passed' = passed \o strs
              /\ IF ProducerOK(h, text_queue_proc)
                   THEN /\ text_queue' = EnqueueAll(text_queue, strs)
                        /\ svcPending' = svcPending + WasEmpty(text_queue, strs)
                        /\ accepted' = accepted \o strs
                        /\ UNCHANGED handleVars
                   ELSE /\ UNCHANGED << text_queue, svcPending, accepted >>
                        /\ IF killed[h]
                             THEN UNCHANGED handleVars
                             ELSE /\ KillSet(h) /\ RemoveLog(h) /\ Detach(h)
                                  /\ UNCHANGED << written, rpos, tpc,
                                                  onFinished >>
  /\ UNCHANGED << histVars, proc, quiet, text_queue_proc, text_queue_lock,
                  upc, panel >>

\* ------------------------------------------------- the spawned terminal process
\* the tee stage writes one more line to the log file
RECURSIVE TotalWritten(_)
TotalWritten(hs) ==
  IF hs = {} THEN 0
  ELSE LET h == CHOOSE x \in hs : TRUE
       IN Len(written[h]) + TotalWritten(hs \ {h})

ProcWrite(h, line, budget) ==
  /\ running[h] /\ TotalWritten(H) < budget
  /\ written' = [written EXCEPT ![h] = Append(@, line)]
  /\ UNCHANGED << killed, listener, running, logfile, rpos, tpc, terminates,
                  onFinished, queueVars, histVars, proc, quiet,
                  text_queue_proc, text_queue_lock, upc, finPending, panel >>

\* the terminal is closed, or the command ends under the "auto" exit policy
ProcExit(h) ==
  /\ running[h]
  /\ running' = [running EXCEPT ![h] = FALSE]
  /\ UNCHANGED << killed, listener, logfile, written, rpos, tpc, terminates,
                  onFinished, queueVars, histVars, proc, quiet,
                  text_queue_proc, text_queue_lock, upc, finPending, panel >>

\* ------------------------------------- background thread: _process_output
uiVars == << proc, quiet, text_queue_proc, upc, panel >>

\* Terminal.stdout: the file is opened and the offset moved to its end
stdout_open(h) ==
  /\ tpc[h] = "start"
  /\ IF logfile[h]
       THEN /\ rpos' = [rpos EXCEPT ![h] = Len(written[h])]
            /\ tpc' = [tpc EXCEPT ![h] = "loop"]
       ELSE /\ tpc' = [tpc EXCEPT ![h] = "fin_chk"]
            /\ UNCHANGED rpos
  /\ UNCHANGED << killed, listener, running, logfile, written, terminates,
                  onFinished, queueVars, histVars, uiVars, text_queue_lock,
                  finPending >>

\* Terminal.stdout: "while self.running" and readline (an empty read sleeps
\* and polls again, which changes nothing)
stdout_read(h) ==
  /\ tpc[h] = "loop"
  /\ IF ~running[h]
       THEN tpc' = [tpc EXCEPT ![h] = "gen_cc"] /\ UNCHANGED rpos
       ELSE /\ rpos[h] < Len(written[h])
            /\ rpos' = [rpos EXCEPT ![h] = @ + 1]
            /\ tpc' = [tpc EXCEPT ![h] = "chk"]
  /\ UNCHANGED << killed, listener, running, logfile, written, terminates,
                  onFinished, queueVars, histVars, uiVars, text_queue_lock,
                  finPending >>

\* "if self.listener:" before on_data
data_check(h) ==
  /\ tpc[h] = "chk"
  /\ tpc' = [tpc EXCEPT ![h] = IF listener[h] THEN "call" ELSE "loop"]
  /\ UNCHANGED << killed, listener, running, logfile, written, rpos,
                  terminates, onFinished, queueVars, histVars, uiVars,
                  text_queue_lock, finPending >>

\* "self.listener.on_data(self, data)" when kill() has set listener to None
\* since the test: AttributeError ends the thread
data_call_none(h) ==
  /\ tpc[h] = "call" /\ ~listener[h]
  /\ tpc' = [tpc EXCEPT ![h] = "err_attr"]
  /\ UNCHANGED << killed, listener, running, logfile, written, rpos,
                  terminates, onFinished, queueVars, histVars, uiVars,
                  text_queue_lock, finPending >>

\* on_data -> append_string(proc, data) under the lock; a refused string makes
\* append_string call proc.kill() while it holds the lock
on_data(h) ==
  /\ tpc[h] = "call" /\ listener[h] /\ text_queue_lock = None
  /\ LET s == DataString(h, rpos[h], written[h][rpos[h]]) IN
       /\ passed' = passed \o << s >>
       /\ IF ProducerOK(h, text_queue_proc)
            THEN /\ text_queue' = Enqueue(text_queue, s)
                 /\ svcPending' = svcPending + WasEmpty(text_queue, << s >>)
                 /\ accepted' = accepted \o << s >>
                 /\ tpc' = [tpc EXCEPT ![h] = "loop"]
                 /\ UNCHANGED text_queue_lock
            ELSE /\ UNCHANGED << text_queue, svcPending, accepted >>
                 /\ IF killed[h]
                      THEN /\ tpc' = [tpc EXCEPT ![h] = "loop"]
                           /\ UNCHANGED text_queue_lock
                      ELSE /\ tpc' = [tpc EXCEPT ![h] = "k_set"]
                           /\ text_queue_lock' = h
  /\ UNCHANGED << killed, listener, running, logfile, written, rpos,
                  terminates, onFinished, histVars, uiVars, finPending >>

stale_kill_terminate(h) ==
  /\ tpc[h] = "k_set"
  /\ KillSet(h)
  /\ tpc' = [tpc EXCEPT ![h] = IF logfile[h] THEN "k_rm" ELSE "k_det"]
  /\ UNCHANGED << listener, logfile, written, rpos, onFinished, queueVars,
                  histVars, uiVars, text_queue_lock, finPending >>

\* FileNotFoundError from os.remove leaves append_string's with-block, which
\* releases the lock, and ends the thread
stale_kill_remove(h) ==
  /\ tpc[h] = "k_rm"
  /\ IF logfile[h]
       THEN /\ RemoveLog(h)
            /\ tpc' = [tpc EXCEPT ![h] = "k_det"]
            /\ UNCHANGED text_queue_lock
       ELSE /\ UNCHANGED logfile
            /\ tpc' = [tpc EXCEPT ![h] = "err_fnf"]
            /\ text_queue_lock' = None
  /\ UNCHANGED << killed, listener, running, written, rpos, terminates,
                  onFinished, queueVars, histVars, uiVars, finPending >>

stale_kill_detach(h) ==
  /\ tpc[h] = "k_det"
  /\ Detach(h)
  /\ text_queue_lock' = None
  /\ tpc' = [tpc EXCEPT ![h] = "loop"]
  /\ UNCHANGED << killed, running, logfile, written, rpos, terminates,
                  onFinished, queueVars, histVars, uiVars, finPending >>

\* Terminal.stdout after its loop: clear_cache's os.path.exists
stdout_clear_check(h) ==
  /\ tpc[h] = "gen_cc"
  /\ tpc' = [tpc EXCEPT ![h] = IF logfile[h] THEN "gen_rm" ELSE "fin_chk"]
  /\ UNCHANGED << killed, listener, running, logfile, written, rpos,
                  terminates, onFinished, queueVars, histVars, uiVars,
                  text_queue_lock, finPending >>

\* clear_cache's os.remove
stdout_clear_remove(h) ==
  /\ tpc[h] = "gen_rm"
  /\ IF logfile[h]
       THEN RemoveLog(h) /\ tpc' = [tpc EXCEPT ![h] = "fin_chk"]
       ELSE UNCHANGED logfile /\ tpc' = [tpc EXCEPT ![h] = "err_fnf"]
  /\ UNCHANGED << killed, listener, running, written, rpos, terminates,
                  onFinished, queueVars, histVars, uiVars, text_queue_lock,
                  finPending >>

\* "if self.listener:" before on_finished
finished_check(h) ==
  /\ tpc[h] = "fin_chk"
  /\ tpc' = [tpc EXCEPT ![h] = IF listener[h] THEN "fin_call" ELSE "done"]
  /\ UNCHANGED << killed, listener, running, logfile, written, rpos,
                  terminates, onFinished, queueVars, histVars, uiVars,
                  text_queue_lock, finPending >>

\* "self.listener.on_finished(self)": on_finished schedules finish(proc)
on_finished(h) ==
  /\ tpc[h] = "fin_call"
  /\ IF listener[h]
       THEN /\ finPending' = finPending \cup {h}
            /\ onFinished' = [onFinished EXCEPT ![h] = @ + 1]
            /\ tpc' = [tpc EXCEPT ![h] = "done"]
       ELSE /\ tpc' = [tpc EXCEPT ![h] = "err_attr"]
            /\ UNCHANGED << finPending, onFinished >>
  /\ UNCHANGED << killed, listener, running, logfile, written, rpos,
                  terminates, queueVars, histVars, uiVars, text_queue_lock >>

\* ---------------------------------------------------------------------- Next
\* Spec and SpecQueue follow the queue, the handles and their threads; run()'s
\* arguments and outcome and the search path, which none of these actions
\* reads, are followed by SpecRequest.
Next ==
  \/ \E qt \in BOOLEAN : StartConstruct(qt, MaxRequests) /\ UNCHANGED extVars
  \/ StartRegister /\ UNCHANGED extVars
  \/ \E qt \in BOOLEAN, elen \in ErrorLens, dlen \in DebugLens :
       StartFail(qt, elen, dlen, MaxRequests) /\ UNCHANGED extVars
  \/ StartInvalid /\ UNCHANGED extVars
  \/ KillClear /\ UNCHANGED extVars
  \/ KillCheck /\ UNCHANGED extVars
  \/ KillTerminate /\ UNCHANGED extVars
  \/ KillRemove /\ UNCHANGED extVars
  \/ KillDetach /\ UNCHANGED extVars
  \/ KillFinish /\ UNCHANGED extVars
  \/ service_text_queue /\ UNCHANGED extVars
  \/ \E h \in H, errs \in {0, 1}, dlen \in DebugLens : finish(h, errs, dlen) /\ UNCHANGED extVars
  \/ \E h \in H, line \in ShortLines : ProcWrite(h, line, MaxLines) /\ UNCHANGED extVars
  \/ \E h \in H : ProcExit(h) /\ UNCHANGED extVars
  \/ \E h \in H : stdout_open(h) /\ UNCHANGED extVars
  \/ \E h \in H : stdout_read(h) /\ UNCHANGED extVars
  \/ \E h \in H : data_check(h) /\ UNCHANGED extVars
  \/ \E h \in H : data_call_none(h) /\ UNCHANGED extVars
  \/ \E h \in H : on_data(h) /\ UNCHANGED extVars
  \/ \E h \in H : stale_kill_terminate(h) /\ UNCHANGED extVars
  \/ \E h \in H : stale_kill_remove(h) /\ UNCHANGED extVars
  \/ \E h \in H : stale_kill_detach(h) /\ UNCHANGED extVars
  \/ \E h \in H : stdout_clear_check(h) /\ UNCHANGED extVars
  \/ \E h \in H : stdout_clear_remove(h) /\ UNCHANGED extVars
  \/ \E h \in H : finished_check(h) /\ UNCHANGED extVars
  \/ \E h \in H : on_finished(h) /\ UNCHANGED extVars

Spec == Init /\ [][Next]_vars

\* One run and nothing else: a single start request, no kill request and no
\* invalid request, with lines long enough to fill and overflow a block.
NextQueue ==
  \/ \E qt \in BOOLEAN : StartConstruct(qt, 1) /\ UNCHANGED extVars
  \/ StartRegister /\ UNCHANGED extVars
  \/ \E qt \in BOOLEAN, elen \in ErrorLens, dlen \in DebugLens :
       StartFail(qt, elen, dlen, 1) /\ UNCHANGED extVars
  \/ service_text_queue /\ UNCHANGED extVars
  \/ \E h \in H, errs \in {0, 1}, dlen \in DebugLens : finish(h, errs, dlen) /\ UNCHANGED extVars
  \/ \E h \in H, line \in LongLines : ProcWrite(h, line, QueueLines) /\ UNCHANGED extVars
  \/ \E h \in H : ProcExit(h) /\ UNCHANGED extVars
  \/ \E h \in H : stdout_open(h) /\ UNCHANGED extVars
  \/ \E h \in H : stdout_read(h) /\ UNCHANGED extVars
  \/ \E h \in H : data_check(h) /\ UNCHANGED extVars
  \/ \E h \in H : on_data(h) /\ UNCHANGED extVars
  \/ \E h \in H : stale_kill_terminate(h) /\ UNCHANGED extVars
  \/ \E h \in H : stale_kill_remove(h) /\ UNCHANGED extVars
  \/ \E h \in H : stale_kill_detach(h) /\ UNCHANGED extVars
  \/ \E h \in H : stdout_clear_check(h) /\ UNCHANGED extVars
  \/ \E h \in H : stdout_clear_remove(h) /\ UNCHANGED extVars
  \/ \E h \in H : finished_check(h) /\ UNCHANGED extVars
  \/ \E h \in H : on_finished(h) /\ UNCHANGED extVars

SpecQueue == Init /\ [][NextQueue]_vars

\* ---------------------------------------- clear_cache: os.remove is refused
\* os.remove raises PermissionError (the file is still open in the tee stage
\* or in the tailer, on a platform that refuses to remove an open file);
\* clear_cache passes over it and the file stays
KillRemoveDenied ==
  /\ upc = "uk_rm" /\ logfile[proc]
  /\ upc' = "uk_det"
  /\ UNCHANGED << handleVars, queueVars, histVars, proc, quiet,
                  text_queue_proc, text_queue_lock, finPending, panel >>

stale_kill_remove_denied(h) ==
  /\ tpc[h] = "k_rm" /\ logfile[h]
  /\ tpc' = [tpc EXCEPT ![h] = "k_det"]
  /\ UNCHANGED << killed, listener, running, logfile, written, rpos,
                  terminates, onFinished, queueVars, histVars, uiVars,
                  text_queue_lock, finPending >>

stdout_clear_remove_denied(h) ==
  /\ tpc[h] = "gen_rm" /\ logfile[h]
  /\ tpc' = [tpc EXCEPT ![h] = "fin_chk"]
  /\ UNCHANGED << killed, listener, running, logfile, written, rpos,
                  terminates, onFinished, queueVars, histVars, uiVars,
                  text_queue_lock, finPending >>

\* Spec, with the removals that are refused
NextLog ==
  \/ Next
  \/ KillRemoveDenied /\ UNCHANGED extVars
  \/ \E h \in H : stale_kill_remove_denied(h) /\ UNCHANGED extVars
  \/ \E h \in H : stdout_clear_remove_denied(h) /\ UNCHANGED extVars

SpecLog == Init /\ [][NextLog]_vars

\* ------------------------------------------------ run(): arguments and outcome
\* Python values of the cmd and shell_cmd arguments, by what run() tests of them
CmdValues == {"None", "list"}
ShellCmdValues == {"None", "str", "list"}
Truthy(v) == v \in {"list", "str"}
IsStr(v) == v = "str"

\* the two tests of lines 312-316; either raises ValueError
Raises(cmd, shell_cmd) ==
  \/ ~Truthy(shell_cmd) /\ ~Truthy(cmd)
  \/ Truthy(shell_cmd) /\ ~IsStr(shell_cmd)

\* the "path" argument of a build system: directories and references to $PATH
PathArgs == { << >>, << "new", "$PATH" >> }

\* os.path.expandvars(path): "$PATH" is replaced by the current search path
RECURSIVE ExpandPath(_, _)
ExpandPath(path, current) ==
  IF path = << >> THEN << >>
  ELSE (IF Head(path) = "$PATH" THEN current ELSE << Head(path) >>)
         \o ExpandPath(Tail(path), current)

\* os.environ["PATH"] when AsyncTerminalProcess.__init__ is left: normally
\* (ok), or by an exception of Terminal(...) or Terminal.run(cmd)
PathAfterInit(path, ok) ==
  LET old_path == PATH
      temporary == IF path # << >> THEN ExpandPath(path, PATH) ELSE PATH
  IN  IF ok /\ path # << >> THEN old_path ELSE temporary

\* the lines the user command writes when results count: "res" is the file a
\* line names when it matches file_regex ("" when it does not match), "nl"
\* whether the line read ends with a newline
ResultLines == { [len |-> 9, crlf |-> 0, res |-> "f.c", nl |-> TRUE],
                 [len |-> 3, crlf |-> 1, res |-> "", nl |-> TRUE] }

\* mutant: "Running ..." is printed whatever quiet is
StartPanelAlwaysPrints(qt, inline) ==
  /\ console' = Append(console, nStart + 1)
  /\ errs_by_file' = << >>
  /\ show_errors_inline' = inline
  /\ hidden' = FALSE

\* run() between validation and _start_process: "Running ..." is printed to
\* the console unless quiet (line 349); hide_phantoms() empties the error
\* index (line 355) and show_errors_inline is read from the preferences
StartPanel(qt, inline) ==
  /\ console' = IF qt THEN console ELSE Append(console, nStart + 1)
  /\ errs_by_file' = << >>
  /\ show_errors_inline' = inline
  /\ hidden' = FALSE

\* one call run(cmd=..., shell_cmd=..., quiet=qt, path=...): validation, then
\* _start_process, whose AsyncTerminalProcess constructor succeeds (ok) or
\* raises
run(cmd, shell_cmd, qt, path, ok, inline, budget) ==
  /\ request' = [cmd |-> cmd, shell_cmd |-> shell_cmd]
  /\ UNCHANGED << nlVars, envVars, lockVars, instances >>
  /\ IF Raises(cmd, shell_cmd)
       THEN /\ StartInvalid
            /\ raised' = "ValueError"
            /\ UNCHANGED << PATH, panelVars >>
       ELSE /\ raised' = "none"
            /\ StartPanel(qt, inline)
            /\ PATH' = PathAfterInit(path, ok)
            /\ IF ok THEN StartConstruct(qt, budget)
               ELSE \E elen \in ErrorLens, dlen \in DebugLens :
                      StartFail(qt, elen, dlen, budget)

\* Start requests of every shape, with and without a search path, and the
\* runs they launch; no kill request and no output.
NextRequest ==
  \/ \E cmd \in CmdValues, shell_cmd \in ShellCmdValues, qt \in BOOLEAN,
        path \in PathArgs, ok \in BOOLEAN :
          run(cmd, shell_cmd, qt, path, ok, TRUE, MaxRequests)
  \/ StartRegister /\ UNCHANGED extVars
  \/ service_text_queue /\ UNCHANGED extVars
  \/ \E h \in H, errs \in {0, 1}, dlen \in DebugLens :
       finish(h, errs, dlen) /\ UNCHANGED extVars
  \/ \E h \in H : ProcExit(h) /\ UNCHANGED extVars
  \/ \E h \in H : stdout_open(h) /\ UNCHANGED extVars
  \/ \E h \in H : stdout_read(h) /\ UNCHANGED extVars
  \/ \E h \in H : stdout_clear_check(h) /\ UNCHANGED extVars
  \/ \E h \in H : stdout_clear_remove(h) /\ UNCHANGED extVars
  \/ \E h \in H : finished_check(h) /\ UNCHANGED extVars
  \/ \E h \in H : on_finished(h) /\ UNCHANGED extVars

SpecRequest == Init /\ [][NextRequest]_vars

\* ------------------------------------------------- on_data: line endings
MaxData == 4         \* characters of the string passed to on_data
CR == "\r"
LF == "\n"
Chars == {CR, LF, "x"}
Strings(n) == UNION { [1..k -> Chars] : k \in 0..n }

\* str.replace(old, new): every occurrence, scanning from the left
RECURSIVE Replace(_, _, _)
Replace(s, old, new) ==
  IF Len(s) < Len(old) THEN s
  ELSE IF SubSeq(s, 1, Len(old)) = old
         THEN new \o Replace(SubSeq(s, Len(old) + 1, Len(s)), old, new)
         ELSE << Head(s) >> \o Replace(Tail(s), old, new)

\* mutant: the two replacements in the other order
NormalizeBareFirst(d) == Replace(Replace(d, << CR >>, << LF >>), << CR, LF >>, << LF >>)
\* data.replace("\r\n", "\n").replace("\r", "\n")
Normalize(d) == Replace(Replace(d, << CR, LF >>, << LF >>), << CR >>, << LF >>)

\* on_data(proc, data) with no build registered: the text is normalized and
\* handed to append_string, which puts it into the queue
on_data_text ==
  /\ upc = "idle" /\ text_queue_lock = None /\ text_queue = << >>
  /\ string' = Normalize(data)
  /\ LET s == Text(None, "data", Len(string')) IN
       /\ text_queue' = Enqueue(text_queue, s)
       /\ svcPending' = svcPending + WasEmpty(text_queue, << s >>)
       /\ passed' = passed \o << s >> /\ accepted' = accepted \o << s >>
  /\ UNCHANGED << handleVars, histVars, uiVars, text_queue_lock, finPending,
                  reqVars, data, envVars, panelVars, lockVars, instances >>

InitNewline ==
  /\ InitProgram
  /\ data \in Strings(MaxData) /\ string = << >>
  /\ environ = << >> /\ env = << >> /\ self_env = << >>
  /\ instances = << >>
SpecNewline == InitNewline /\ [][on_data_text]_vars

\* ------------------------------------------- Terminal.__init__: environment
MaxValue == 1        \* parts of one variable's value
Keys == {"A", "B"}
\* a value is a sequence of parts: literal text, or a reference to a variable
Reference == [A |-> "$A", B |-> "$B"]
Parts == {"x"} \cup { Reference[k] : k \in Keys }
Values == UNION { [1..n -> Parts] : n \in 0..MaxValue }
EnvMaps == UNION { [D -> Values] : D \in SUBSET Keys }

\* os.path.expandvars(value) against a mapping: a reference to a variable of
\* the mapping is replaced by its value, any other part is kept as it is
RECURSIVE ExpandVars(_, _)
ExpandVars(value, source) ==
  IF value = << >> THEN << >>
  ELSE LET part == Head(value)
           named == { k \in DOMAIN source : Reference[k] = part }
       IN (IF named = {} THEN << part >>
           ELSE source[CHOOSE k \in named : TRUE])
            \o ExpandVars(Tail(value), source)

\* os.environ.copy() updated with env
Merged(base, overrides) ==
  [k \in DOMAIN base \cup DOMAIN overrides |->
     IF k \in DOMAIN overrides THEN overrides[k] ELSE base[k]]

\* mutant: references are looked up in the merged map
ResolveFromMerged(base, overrides) ==
  LET merged == Merged(base, overrides)
  IN  [k \in DOMAIN merged |-> ExpandVars(merged[k], merged)]
\* lines 52-55: os.path.expandvars looks references up in os.environ
Resolve(base, overrides) ==
  LET merged == Merged(base, overrides)
  IN  [k \in DOMAIN merged |-> ExpandVars(merged[k], base)]

Terminal_init ==
  /\ self_env = << >>
  /\ self_env' = << Resolve(environ, env) >>
  /\ UNCHANGED << handleVars, queueVars, histVars, uiVars, text_queue_lock,
                  finPending, reqVars, nlVars, panelVars, environ, env,
                  lockVars, instances >>

InitEnv ==
  /\ InitProgram
  /\ data = << >> /\ string = << >>
  /\ environ \in EnvMaps /\ env \in EnvMaps /\ self_env = << >>
  /\ instances = << >>
SpecEnv == InitEnv /\ [][Terminal_init]_vars

\* ------------------------------------------- the console and the error index
\* find_all_results_with_text: the data lines of the panel that match
Matches(s) == s.kind = "data" /\ written[s.src][s.n].res # ""
FileOf(s) == written[s.src][s.n].res
find_all_results(p) == SelectSeq(p, Matches)

\* mutant: only the block just appended is scanned
IndexOfBlock(p, characters) ==
  LET errs == find_all_results(characters)
      files == { FileOf(errs[i]) : i \in 1..Len(errs) }
  IN  [f \in files |-> LET In(e) == FileOf(e) = f IN SelectSeq(errs, In)]
\* errs_by_file as service_text_queue builds it after appending a block: a
\* new mapping from every result of the panel
IndexOf(p, characters) ==
  LET errs == find_all_results(p)
      files == { FileOf(errs[i]) : i \in 1..Len(errs) }
  IN  [f \in files |-> LET In(e) == FileOf(e) = f IN SelectSeq(errs, In)]

\* characters.find("\n") >= 0
HasNewline(s) ==
  CASE s.kind = "data" -> written[s.src][s.n].nl
    [] s.kind = "finished" -> s.len = FinishedErrLen
    [] s.kind = "cancelled" -> FALSE
    [] OTHER -> TRUE

\* service_text_queue, with what it does to the error index
service_text_queue_index ==
  /\ service_text_queue
  /\ LET characters == IF text_queue = << >> THEN << >> ELSE Head(text_queue)
     IN  IF /\ show_errors_inline
            /\ \E i \in 1..Len(characters) : HasNewline(characters[i])
           THEN errs_by_file' = IndexOf(panel', characters)
           ELSE UNCHANGED errs_by_file
  /\ UNCHANGED << console, show_errors_inline, hidden, reqVars, nlVars,
                  envVars, lockVars, instances >>

\* run(hide_phantoms_only=True), or the close link of a phantom
hide_phantoms ==
  /\ upc = "idle"
  /\ errs_by_file' = << >>
  /\ show_errors_inline' = FALSE
  /\ hidden' = TRUE
  /\ UNCHANGED << handleVars, queueVars, histVars, uiVars, text_queue_lock,
                  finPending, console, reqVars, nlVars, envVars, lockVars,
                  instances >>

\* finish(proc) with the results the panel holds
finish_results(h) ==
  \E dlen \in DebugLens : finish(h, Len(find_all_results(panel)), dlen)

\* the handles, their threads and the callbacks that neither print to the
\* console nor touch the error index
NextRuns ==
  \/ StartRegister /\ UNCHANGED extVars
  \/ \E h \in H : finish_results(h) /\ UNCHANGED extVars
  \/ \E h \in H, line \in ResultLines :
       ProcWrite(h, line, MaxLines) /\ UNCHANGED extVars
  \/ \E h \in H : ProcExit(h) /\ UNCHANGED extVars
  \/ \E h \in H : stdout_open(h) /\ UNCHANGED extVars
  \/ \E h \in H : stdout_read(h) /\ UNCHANGED extVars
  \/ \E h \in H : data_check(h) /\ UNCHANGED extVars
  \/ \E h \in H : on_data(h) /\ UNCHANGED extVars
  \/ \E h \in H : stale_kill_terminate(h) /\ UNCHANGED extVars
  \/ \E h \in H : stale_kill_remove(h) /\ UNCHANGED extVars
  \/ \E h \in H : stale_kill_detach(h) /\ UNCHANGED extVars
  \/ \E h \in H : stdout_clear_check(h) /\ UNCHANGED extVars
  \/ \E h \in H : stdout_clear_remove(h) /\ UNCHANGED extVars
  \/ \E h \in H : finished_check(h) /\ UNCHANGED extVars
  \/ \E h \in H : on_finished(h) /\ UNCHANGED extVars

ConsoleStarts == 1   \* start requests of SpecConsole
PanelLaunches == 1   \* starts of SpecIndex that launch; later ones fail to

\* Valid starts, quiet or not, with show_errors_inline off in the preferences,
\* their output and its delivery; no kill request.
NextConsole ==
  \/ \E qt \in BOOLEAN, ok \in BOOLEAN :
       run("list", "None", qt, << >>, ok, FALSE, ConsoleStarts)
  \/ service_text_queue_index
  \/ NextRuns

SpecConsole == Init /\ [][NextConsole]_vars

\* Valid starts that are not quiet, their output and its delivery, and
\* requests to hide the inline errors; no kill request.
NextIndex ==
  \/ \E inline \in BOOLEAN :
       run("list", "None", FALSE, << >>, nStart < PanelLaunches, inline,
           MaxRequests)
  \/ service_text_queue_index
  \/ hide_phantoms
  \/ NextRuns

SpecIndex == Init /\ [][NextIndex]_vars

\* ------------------------ append_string and service_text_queue, step by step
\* The background thread's append_string is split at every statement that
\* touches the queue, and the drain's re-post is split from its pop, so that
\* each can be interleaved with the other thread.  The append_string calls
\* made on the UI thread itself (finish, "[Cancelled]") stay single steps: no
\* other UI callback can run inside them.
LockStarts == 1      \* starts of SpecLock
LockLines == 2       \* lines written to the log files within SpecLock

\* the lines of SpecLock: one that is merged, one that takes a block of its own
LockLineSet == { [len |-> 1, crlf |-> 0], [len |-> BLOCK_SIZE, crlf |-> 0] }

restVars == << reqVars, nlVars, envVars, panelVars, instances >>

\* mutant: the with-block is entered whoever holds the lock
LockIgnored(lock) == TRUE
\* "with self.text_queue_lock:" can be entered
LockFree(lock) == lock = None

\* the string the thread of h is handing to on_data
Line(h) == DataString(h, rpos[h], written[h][rpos[h]])

\* on_data -> append_string: the lock is taken
append_enter(h) ==
  /\ tpc[h] = "call" /\ listener[h] /\ LockFree(text_queue_lock)
  /\ text_queue_lock' = h
  /\ passed' = passed \o << Line(h) >>
  /\ tpc' = [tpc EXCEPT ![h] = "as_chk"]
  /\ UNCHANGED << killed, listener, running, logfile, written, rpos,
                  terminates, onFinished, text_queue, svcPending, accepted,
                  histVars, uiVars, finPending, lockVars, restVars >>

\* the producer-identity test, then "if len(self.text_queue) == 0"
append_check(h) ==
  /\ tpc[h] = "as_chk"
  /\ IF ProducerOK(h, text_queue_proc)
       THEN /\ was_empty' = [was_empty EXCEPT ![h] = Len(text_queue) = 0]
            /\ text_queue' = IF Len(text_queue) = 0 THEN << << >> >>
                             ELSE text_queue
            /\ tpc' = [tpc EXCEPT ![h] = "as_fit"]
            /\ UNCHANGED text_queue_lock
       ELSE /\ UNCHANGED << was_empty, text_queue >>
            /\ IF killed[h]
                 THEN /\ tpc' = [tpc EXCEPT ![h] = "loop"]
                      /\ text_queue_lock' = None
                 ELSE /\ tpc' = [tpc EXCEPT ![h] = "k_set"]
                      /\ UNCHANGED text_queue_lock
  /\ UNCHANGED << killed, listener, running, logfile, written, rpos,
                  terminates, onFinished, svcPending, passed, accepted,
                  histVars, uiVars, finPending, cur, restVars >>

\* "if len(string) < available": the tail block is popped, or the string is
\* appended as a new block and the lock released
append_fit(h) ==
  /\ tpc[h] = "as_fit"
  /\ LET last == Len(text_queue)
         available == BLOCK_SIZE - BlockLen(text_queue[last])
     IN  IF MergeFits(Line(h).len, available)
           THEN /\ cur' = [cur EXCEPT ![h] = text_queue[last]]
                /\ text_queue' = SubSeq(text_queue, 1, last - 1)
                /\ tpc' = [tpc EXCEPT ![h] = "as_merge"]
                /\ UNCHANGED << accepted, text_queue_lock >>
           ELSE /\ text_queue' = Append(text_queue, << Line(h) >>)
                /\ accepted' = accepted \o << Line(h) >>
                /\ text_queue_lock' = None
                /\ tpc' = [tpc EXCEPT ![h] = "as_out"]
                /\ UNCHANGED cur
  /\ UNCHANGED << killed, listener, running, logfile, written, rpos,
                  terminates, onFinished, svcPending, passed, histVars,
                  uiVars, finPending, was_empty, restVars >>

\* "self.text_queue.append(cur + string)" and the end of the with-block
append_merge(h) ==
  /\ tpc[h] = "as_merge"
  /\ text_queue' = Append(text_queue, Append(cur[h], Line(h)))
  /\ cur' = [cur EXCEPT ![h] = << >>]
  /\ accepted' = accepted \o << Line(h) >>
  /\ text_queue_lock' = None
  /\ tpc' = [tpc EXCEPT ![h] = "as_out"]
  /\ UNCHANGED << killed, listener, running, logfile, written, rpos,
                  terminates, onFinished, svcPending, passed, histVars,
                  uiVars, finPending, was_empty, restVars >>

\* "if was_empty: sublime.set_timeout(self.service_text_queue, 0)"
append_schedule(h) ==
  /\ tpc[h] = "as_out"
  /\ svcPending' = svcPending + (IF was_empty[h] THEN 1 ELSE 0)
  /\ was_empty' = [was_empty EXCEPT ![h] = FALSE]
  /\ tpc' = [tpc EXCEPT ![h] = "loop"]
  /\ UNCHANGED << killed, listener, running, logfile, written, rpos,
                  terminates, onFinished, text_queue, passed, accepted,
                  histVars, uiVars, text_queue_lock, finPending, cur,
                  restVars >>

\* service_text_queue up to the panel's append: one scheduled drain runs,
\* takes the lock, pops the head block and hands it to the panel
service_pop ==
  /\ upc = "idle" /\ svcPending > 0 /\ LockFree(text_queue_lock)
  /\ svcPending' = svcPending - 1
  /\ IF Len(text_queue) = 0
       THEN UNCHANGED << text_queue, panel, upc >>
       ELSE LET characters == Head(text_queue)
                is_empty == Len(Tail(text_queue)) = 0
            IN /\ text_queue' = Tail(text_queue)
               /\ panel' = panel \o characters
               /\ upc' = IF is_empty THEN "idle" ELSE "svc_post"
  /\ UNCHANGED << handleVars, histVars, proc, quiet, text_queue_proc,
                  text_queue_lock, finPending, passed, accepted, lockVars,
                  restVars >>

\* mutant: the drain is not posted again
service_repost_lost ==
  /\ upc = "svc_post"
  /\ upc' = "idle"
  /\ UNCHANGED << handleVars, histVars, proc, quiet, text_queue_proc,
                  text_queue_lock, finPending, queueVars, panel, lockVars,
                  restVars >>

\* "if not is_empty: sublime.set_timeout(self.service_text_queue, 1)"
service_repost ==
  /\ upc = "svc_post"
  /\ svcPending' = svcPending + 1
  /\ upc' = "idle"
  /\ UNCHANGED << handleVars, histVars, proc, quiet, text_queue_proc,
                  text_queue_lock, finPending, text_queue, panel, passed,
                  accepted, lockVars, restVars >>

\* what the program does of its own accord: the UI loop's callbacks and the
\* background threads
Progress ==
  \/ StartRegister /\ UNCHANGED extVars
  \/ service_pop
  \/ service_repost
  \/ \E h \in H, dlen \in DebugLens : finish(h, 0, dlen) /\ UNCHANGED extVars
  \/ \E h \in H : stdout_open(h) /\ UNCHANGED extVars
  \/ \E h \in H : stdout_read(h) /\ UNCHANGED extVars
  \/ \E h \in H : data_check(h) /\ UNCHANGED extVars
  \/ \E h \in H : append_enter(h)
  \/ \E h \in H : append_check(h)
  \/ \E h \in H : append_fit(h)
  \/ \E h \in H : append_merge(h)
  \/ \E h \in H : append_schedule(h)
  \/ \E h \in H : stale_kill_terminate(h) /\ UNCHANGED extVars
  \/ \E h \in H : stale_kill_remove(h) /\ UNCHANGED extVars
  \/ \E h \in H : stale_kill_detach(h) /\ UNCHANGED extVars
  \/ \E h \in H : stdout_clear_check(h) /\ UNCHANGED extVars
  \/ \E h \in H : stdout_clear_remove(h) /\ UNCHANGED extVars
  \/ \E h \in H : finished_check(h) /\ UNCHANGED extVars
  \/ \E h \in H : on_finished(h) /\ UNCHANGED extVars

\* Starts that launch and are not quiet, requests that run() rejects (their
\* queue clear is the one every run() call begins with), and the runs' output;
\* no kill request.
NextLock ==
  \/ StartConstruct(FALSE, LockStarts) /\ UNCHANGED extVars
  \/ StartInvalid /\ UNCHANGED extVars
  \/ \E h \in H, line \in LockLineSet :
       ProcWrite(h, line, LockLines) /\ UNCHANGED extVars
  \/ \E h \in H : ProcExit(h) /\ UNCHANGED extVars
  \/ Progress

SpecLock == Init /\ [][NextLock]_vars

\* One run, the requests run() rejects while it is active, and its output; the
\* UI loop runs its callbacks and the threads run.
NextDrain ==
  \/ StartConstruct(FALSE, 1) /\ UNCHANGED extVars
  \/ StartInvalid /\ UNCHANGED extVars
  \/ \E h \in H, line \in LockLineSet :
       ProcWrite(h, line, LockLines) /\ UNCHANGED extVars
  \/ \E h \in H : ProcExit(h) /\ UNCHANGED extVars
  \/ Progress

SpecDrain == Init /\ [][NextDrain]_vars /\ WF_vars(Progress)

\* ------------------------------------------------ two windows, two instances
\* Sublime Text creates one TerminalExecCommand per window.  text_queue and
\* text_queue_lock are class attributes that are only ever mutated in place, so
\* every instance uses the same deque and the same lock; proc, text_queue_proc
\* and output_view are assigned through self and are the instance's own.  Each
\* handler below is one step (the lock is never contended between steps), the
\* handle is registered in the step that creates it, and the runs keep running.
WindowRequests == 2  \* start and kill requests, over both windows
WindowLines == 2     \* lines the runs pass to on_data, over both windows

Windows == {"w1", "w2"}

\* an instance: self.proc, self.text_queue_proc, the text in self.output_view,
\* its scheduled service_text_queue timeouts, the handles it has created and
\* those of them whose process is alive and not killed
NewInstance ==
  [proc |-> None, text_queue_proc |-> None, output_view |-> << >>,
   scheduled |-> 0, started |-> {}, live |-> {}]

windowRest ==
  << handleVars, svcPending, nInvalid, superseded, overlapped, cancelled,
     idleKill, proc, quiet, text_queue_proc, text_queue_lock, upc, finPending,
     panel, reqVars, nlVars, envVars, panelVars, lockVars >>

\* run(cmd=...) in window w: the shared queue is cleared, the panel created
\* anew, the handle constructed and registered
run_in(w) ==
  /\ nStart + nKill < WindowRequests
  /\ LET h == nStart + 1
         self == instances[w]
     IN  instances' = [instances EXCEPT ![w] =
           [self EXCEPT !.proc = h, !.text_queue_proc = h,
                        !.output_view = << >>,
                        !.started = @ \cup {h}, !.live = @ \cup {h}]]
  /\ text_queue' = << >>
  /\ nStart' = nStart + 1
  /\ UNCHANGED << passed, accepted, nKill, windowRest >>

\* run(kill=True) in window w: the shared queue is cleared, self.proc killed
\* and "[Cancelled]" appended
kill_in(w) ==
  /\ nStart + nKill < WindowRequests
  /\ LET self == instances[w]
         strs == IF self.proc = None THEN << >>
                 ELSE << Text(None, "cancelled", CancelledLen) >>
     IN  /\ instances' = [instances EXCEPT ![w] =
               [self EXCEPT !.proc = None, !.text_queue_proc = None,
                            !.live = @ \ {self.proc},
                            !.scheduled = @ + WasEmpty(<< >>, strs)]]
         /\ text_queue' = EnqueueAll(<< >>, strs)
         /\ passed' = passed \o strs /\ accepted' = accepted \o strs
  /\ nKill' = nKill + 1
  /\ UNCHANGED << nStart, windowRest >>

\* a run of window w hands a line to w's on_data: append_string tests the
\* handle against w's text_queue_proc and appends to the shared queue
on_data_in(w, h) ==
  /\ h \in instances[w].live /\ Len(passed) < WindowLines
  /\ LET self == instances[w]
         s == [src |-> h, kind |-> "data", n |-> Len(passed) + 1, len |-> 1]
     IN  /\ passed' = passed \o << s >>
         /\ IF ProducerOK(h, self.text_queue_proc)
              THEN /\ text_queue' = Enqueue(text_queue, s)
                   /\ accepted' = accepted \o << s >>
                   /\ instances' = [instances EXCEPT ![w].scheduled =
                                      @ + WasEmpty(text_queue, << s >>)]
              ELSE /\ instances' = [instances EXCEPT ![w].live = @ \ {h}]
                   /\ UNCHANGED << text_queue, accepted >>
  /\ UNCHANGED << nStart, nKill, windowRest >>

\* a scheduled service_text_queue of window w: the head block of the shared
\* queue goes to w's panel
service_text_queue_in(w) ==
  /\ instances[w].scheduled > 0
  /\ IF Len(text_queue) = 0
       THEN /\ instances' = [instances EXCEPT ![w].scheduled = @ - 1]
            /\ UNCHANGED text_queue
       ELSE LET characters == Head(text_queue)
                is_empty == Len(Tail(text_queue)) = 0
            IN /\ text_queue' = Tail(text_queue)
               /\ instances' = [instances EXCEPT
                    ![w].output_view = @ \o characters,
                    ![w].scheduled = @ - 1 + (IF is_empty THEN 0 ELSE 1)]
  /\ UNCHANGED << passed, accepted, nStart, nKill, windowRest >>

NextWindows ==
  \/ \E w \in Windows : run_in(w)
  \/ \E w \in Windows : kill_in(w)
  \/ \E w \in Windows : \E h \in instances[w].live : on_data_in(w, h)
  \/ \E w \in Windows : service_text_queue_in(w)

InitWindows ==
  /\ InitProgram
  /\ data = << >> /\ string = << >>
  /\ environ = << >> /\ env = << >> /\ self_env = << >>
  /\ instances = [w \in Windows |-> NewInstance]

SpecWindows == InitWindows /\ [][NextWindows]_vars

\* ==================================================================== claims
StringsOf(h, seq) == LET From(s) == s.src = h IN SelectSeq(seq, From)
Blocks == { text_queue[i] : i \in 1..Len(text_queue) }

\* C1: once a later start has cleared the queue, no string produced by an
\* earlier run (data line or Finished summary) is in the output queue, and
\* none is delivered to the panel any more.
C1_NoStaleText ==
  [][\A h \in H : superseded[h] =>
        /\ StringsOf(h, Flatten(text_queue')) = << >>
        /\ Len(StringsOf(h, panel')) <= Len(StringsOf(h, panel))]_vars

\* a superseded run's thread has offered a data line, which append_string
\* refused: the thread is inside the stale-producer kill
C1_Witness ==
  \E h \in H : /\ superseded[h] /\ tpc[h] = "k_set"
               /\ StringsOf(h, passed) # << >>
               /\ StringsOf(h, Flatten(text_queue)) = << >>

\* C2: a run that was alive when a later start was issued has received a kill
\* by the time its thread has ended and its finish callback has run (nothing
\* holds the handle after that, so no kill can follow).
C2_SupersededIsKilled ==
  \A h \in H : (overlapped[h] /\ ThreadEnded(h) /\ h \notin finPending)
                 => killed[h]

\* C3: at most one launched terminal process is alive and not killed.
C3_OneBuildInFlight == Cardinality({ h \in H : Alive(h) }) <= 1

\* C4: kill() on one handle, however often and from whichever threads it is
\* called, performs Terminal.terminate() at most once.
C4_OneTerminate == \A h \in H : terminates[h] <= 1

KillCalled(h) ==
  killed[h] \/ tpc[h] = "k_set" \/ (proc = h /\ upc = "uk_set")
C6_DrainReconstructs ==
  (nStart = 1 /\ nKill = 0 /\ nInvalid = 0) =>
     /\ IsPrefix(panel, passed)
     /\ panel \o Flatten(text_queue) = accepted
     /\ text_queue # << >> => svcPending > 0
     /\ (\A h \in H : ~KillCalled(h)) =>
          /\ accepted = passed
          /\ svcPending = 0 => panel = passed

\* the run is over, every block is drained, and the text went through more
\* than one block, one of them a string at or over the cap
C6_Witness ==
  /\ nStart = 1 /\ \A h \in H : ~killed[h]
  /\ text_queue = << >> /\ svcPending = 0 /\ finPending = {}
  /\ Len(panel) >= 3 /\ panel = passed
  /\ \E i \in 1..Len(panel) : panel[i].len >= BLOCK_SIZE
  /\ \E i \in 1..Len(panel) : panel[i].kind = "finished"

\* C7: a kill request on a run whose process is alive returns with the handle
\* killed, self.proc None and the queue holding exactly "[Cancelled]"; and
\* afterwards no string of the cancelled run enters the queue.
KillPcs == {"uk_chk", "uk_set", "uk_rm", "uk_det", "uk_fin"}
CancelledMarker == Text(None, "cancelled", CancelledLen)
C7_KillReturnsToIdle ==
  [][/\ (upc \in KillPcs /\ upc' = "idle" /\ proc # None /\ cancelled[proc])
          => /\ proc' = None
             /\ killed'[proc]
             /\ text_queue' = << << CancelledMarker >> >>
     /\ \A h \in H : cancelled[h] /\ upc \notin KillPcs
          => StringsOf(h, Flatten(text_queue')) = << >>]_vars

\* C8: a kill request that arrives when no run is active (self.proc is None,
\* or the run has finished: thread ended, finish callback run, process gone)
\* appends nothing, and is_enabled(kill=True) is false while it is handled.
is_enabled(kill) == IF kill THEN proc # None /\ running[proc] ELSE TRUE
C8_IdleKillIsNoop ==
  [][(upc \in KillPcs /\ idleKill)
        => /\ ~is_enabled(TRUE)
           /\ accepted' = accepted]_vars

\* C9: a handle that is not killed calls on_finished at most once, exactly
\* once by the time its thread ends, and makes no on_data call after it; and
\* once the finish callback of such a run has run, the run being neither
\* superseded nor quiet, the strings taken from it are its data lines followed
\* by exactly one Finished summary (and, with errors, the debug text).
Summaries(seq) == LET Fin(s) == s.kind = "finished" IN SelectSeq(seq, Fin)
C9_FinishedOnceAfterData ==
  \A h \in H : (Existing(h) /\ ~killed[h]) =>
     /\ onFinished[h] <= 1
     /\ ThreadEnded(h) => (tpc[h] = "done" /\ onFinished[h] = 1)
     /\ onFinished[h] = 1 => tpc[h] = "done"
     /\ (onFinished[h] = 1 /\ h \notin finPending /\ ~superseded[h] /\ ~quiet)
          => LET mine == StringsOf(h, accepted) IN
               /\ Len(Summaries(mine)) = 1
               /\ \A i, j \in 1..Len(mine) :
                    (mine[i].kind = "data" /\ mine[j].kind = "finished")
                       => i < j

\* a run that was never killed nor superseded has delivered a data line and
\* its finish callback has appended the summary
C9_Witness ==
  \E h \in H :
     /\ Existing(h) /\ ~killed[h] /\ ~superseded[h] /\ ~quiet
     /\ onFinished[h] = 1 /\ h \notin finPending
     /\ \E i \in 1..Len(accepted) :
          accepted[i].src = h /\ accepted[i].kind = "data"
     /\ Len(Summaries(StringsOf(h, accepted))) = 1

\* C10: the background thread never calls a method on a None listener.
C10_NoCallOnNone == \A h \in H : tpc[h] # "err_attr"

\* C11: a start request with neither cmd nor shell_cmd, with both, or with a
\* shell_cmd that is not a string is rejected (run() raises ValueError) and
\* spawns no terminal process.
ClaimedInvalid(r) ==
  \/ r.cmd = "None" /\ r.shell_cmd = "None"
  \/ r.cmd # "None" /\ r.shell_cmd # "None"
  \/ r.shell_cmd # "None" /\ ~IsStr(r.shell_cmd)
C11_InvalidRequestRejected ==
  [][(Requests' = Requests + 1 /\ ClaimedInvalid(request'))
        => /\ raised' = "ValueError"
           /\ nStart' = nStart
           /\ running' = running /\ tpc' = tpc /\ logfile' = logfile]_vars

\* C12: no run() call is left by an exception.
C12_NothingEscapesRun == raised = "none"

\* C16: os.environ["PATH"] has the same value after every start as before it,
\* whether the handle's constructor returns or raises.
C16_PathRestored == [][PATH' = PATH]_vars

\* C13: a start whose handle constructor raises returns normally with the
\* queue holding, in order, the error message, the debug text and, unless
\* quiet, "[Finished]"; self.proc and the legitimate producer are None, and
\* the UI thread is idle with the lock free, as a new start requires.
LaunchFailed == nStart' = nStart + 1 /\ upc' = "idle"
C13_LaunchFailureReported ==
  [][LaunchFailed =>
       /\ proc' = None /\ text_queue_proc' = None
       /\ text_queue_lock' = None
       /\ LET q == Flatten(text_queue') IN
            /\ Len(q) = (IF quiet' THEN 2 ELSE 3)
            /\ q[1].kind = "error" /\ q[2].kind = "debug"
            /\ ~quiet' => q[3] = Text(None, "finished", FinishedPlainLen)
            /\ \A i \in 1..Len(q) : q[i].src = None]_vars

\* the first start failed, not quiet: no handle exists, and the queue holds
\* one block with the error message, the debug text and "[Finished]"
C13_Witness ==
  /\ nStart = 1 /\ ~Existing(1) /\ ~quiet
  /\ upc = "idle" /\ proc = None /\ text_queue_proc = None
  /\ Len(text_queue) = 1 /\ Len(text_queue[1]) = 3
  /\ text_queue[1][1].kind = "error"
  /\ text_queue[1][3].kind = "finished"

\* C14: a run in flight (process alive, handle not killed) has its log file,
\* one file per handle; and once the run has terminated, its process exited
\* and its tailer thread ended, or kill() on its handle done, the log file no
\* longer exists.
InFlight(h) == running[h] /\ ~killed[h]
InKill(h) ==
  tpc[h] \in {"k_rm", "k_det"} \/ (proc = h /\ upc \in {"uk_rm", "uk_det"})
Terminated(h) ==
  /\ Existing(h)
  /\ \/ ~running[h] /\ ThreadEnded(h)
     \/ killed[h] /\ ~InKill(h)
C14_LogFileLifetime ==
  \A h \in H : /\ InFlight(h) => logfile[h]
               /\ Terminated(h) => ~logfile[h]

\* C15: the text on_data hands to append_string holds no "\r": reading the
\* argument from the left, each "\r\n" pair has become one "\n", each other
\* "\r" one "\n", and every other character is kept, in order.
RECURSIVE LineEndings(_)
LineEndings(d) ==
  IF d = << >> THEN << >>
  ELSE IF Len(d) >= 2 /\ d[1] = CR /\ d[2] = LF
         THEN << LF >> \o LineEndings(SubSeq(d, 3, Len(d)))
  ELSE IF d[1] = CR THEN << LF >> \o LineEndings(Tail(d))
  ELSE << d[1] >> \o LineEndings(Tail(d))
C15_OnlyNewlines ==
  text_queue # << >> =>
     /\ \A i \in 1..Len(string) : string[i] # CR
     /\ string = LineEndings(data)
     /\ Flatten(text_queue) = << Text(None, "data", Len(string)) >>

\* a text with a "\r\n" pair, a bare "\r" and another character went through
C15_Witness ==
  /\ text_queue # << >>
  /\ data = << CR, LF, "x", CR >>
  /\ string = << LF, "x", LF >>

\* C17 as stated: the resolved environment is the merged map (base, then
\* every override, the override winning) with the references in every value
\* replaced from the merged map itself; unresolved references stay verbatim.
C17_ExpandsFromMergedMap ==
  self_env # << >> =>
     LET merged == Merged(environ, env)
     IN  self_env[1] = [k \in DOMAIN merged |-> ExpandVars(merged[k], merged)]

\* C17 as amended: the variables are those of base and overrides; a variable's
\* value is the override's if there is one, else the base's, with each part
\* that refers to a variable of the base (the process environment) replaced
\* by the base's value of it, overridden or not, and every other part, also a
\* reference to a variable only the overrides supply, kept verbatim.
PartValue(part) ==
  IF \E k \in DOMAIN environ : part = Reference[k]
    THEN environ[CHOOSE k \in DOMAIN environ : part = Reference[k]]
    ELSE << part >>
RECURSIVE Joined(_, _)
Joined(value, n) ==
  IF n = 0 THEN << >> ELSE Joined(value, n - 1) \o PartValue(value[n])
C17_ExpandsFromBase ==
  self_env # << >> =>
     /\ DOMAIN self_env[1] = DOMAIN environ \cup DOMAIN env
     /\ \A k \in DOMAIN self_env[1] :
          LET value == IF k \in DOMAIN env THEN env[k] ELSE environ[k]
          IN  self_env[1][k] = Joined(value, Len(value))

\* B refers to A, which only the overrides supply: the reference is kept
C17_Witness ==
  /\ self_env # << >>
  /\ environ = << >>
  /\ env = [A |-> << "x" >>, B |-> << "$A" >>]
  /\ self_env[1] = [A |-> << "x" >>, B |-> << "$A" >>]

\* C18 as stated: once the latest start's run has finished and everything is
\* delivered, the panel begins with the Running line and ends with the
\* summary when quiet is false, and holds neither when quiet is true.
Delivered == text_queue = << >> /\ svcPending = 0 /\ upc = "idle"
RunFinished(h) ==
  /\ h = nStart /\ proc = h /\ ~killed[h]
  /\ onFinished[h] = 1 /\ h \notin finPending
KindsOf(seq) == { seq[i].kind : i \in 1..Len(seq) }
C18_StatusLinesInPanel ==
  \A h \in H : (RunFinished(h) /\ Delivered) =>
     IF quiet
       THEN KindsOf(panel) \cap {"running", "finished"} = {}
       ELSE /\ panel # << >>
            /\ panel[1].kind = "running"
            /\ panel[Len(panel)].kind = "finished"

\* C18 as amended: the Running line goes to the console, once per start that
\* is not quiet, and never to the queue or the panel; the summary is appended
\* if and only if quiet is false: once the latest start's run has finished, or
\* its launch has failed, and everything is delivered, the panel holds no
\* summary when quiet is true and exactly one when it is false, as its last
\* text or, when results were matched, followed only by the debug text.
LaunchFailedLast == nStart >= 1 /\ ~Existing(nStart)
EndsWithSummary(p) ==
  /\ Len(Summaries(p)) = 1
  /\ \/ p[Len(p)].kind = "finished"
     \/ /\ Len(p) >= 2
        /\ p[Len(p)].kind = "debug"
        /\ p[Len(p) - 1] = Text(nStart, "finished", FinishedErrLen)
C18_StatusLines ==
  /\ "running" \notin KindsOf(passed) \cup KindsOf(panel)
  /\ Len(console) <= nStart
  /\ nStart >= 1 => (~quiet <=> (console # << >> /\ console[Len(console)] = nStart))
  /\ ((LaunchFailedLast \/ \E h \in H : RunFinished(h)) /\ Delivered) =>
        IF quiet THEN "finished" \notin KindsOf(panel)
        ELSE EndsWithSummary(panel)

\* a run that is not quiet has finished with a matched result: the console
\* holds its Running line, the panel its line, the summary and the debug text
C18_Witness ==
  /\ RunFinished(1) /\ Delivered /\ ~quiet
  /\ console = << 1 >>
  /\ Len(panel) = 3
  /\ panel[1].kind = "data" /\ panel[3].kind = "debug"

\* C19: the error index is empty right after every run start and every
\* request to hide, and stays empty after a hide until the next start; any
\* other change of it replaces it by the index of all results the panel then
\* holds: for each file named by a result, that file's results in panel order.
FullIndex(p) ==
  LET named == { i \in 1..Len(p) : Matches(p[i]) }
      files == { FileOf(p[i]) : i \in named }
  IN  [f \in files |->
         LET OfFile(s) == Matches(s) /\ FileOf(s) = f IN SelectSeq(p, OfFile)]
C19_ErrorIndex ==
  [][/\ nStart' = nStart + 1 => errs_by_file' = << >>
     /\ hidden' => errs_by_file' = << >>
     /\ errs_by_file' # errs_by_file =>
          IF nStart' # nStart \/ (hidden' /\ ~hidden)
            THEN errs_by_file' = << >>
            ELSE errs_by_file' = FullIndex(panel')]_vars

\* after a request to hide, the index is empty although the panel holds a
\* result of the run, and its summary
C19_Witness ==
  /\ hidden /\ errs_by_file = << >>
  /\ find_all_results(panel) # << >>
  /\ "finished" \in KindsOf(panel)

\* C20: a handle that no later start has superseded, with no kill request
\* made, is not killed, its thread is never inside the kill of the
\* stale-producer check, and every string it passed to append_string was
\* accepted.
StaleKillPcs == {"k_set", "k_rm", "k_det"}
C20_CurrentRunNotKilled ==
  \A h \in H : (Existing(h) /\ ~superseded[h] /\ nKill = 0) =>
     /\ ~killed[h]
     /\ tpc[h] \notin StaleKillPcs
     /\ StringsOf(h, passed) = StringsOf(h, accepted)

\* C21: once a handle that was neither killed nor superseded has signalled
\* on_finished, every line written to its log file has been passed to on_data.
Forwarded(h, i) ==
  \E j \in 1..Len(passed) : passed[j] = DataString(h, i, written[h][i])
C21_EveryLineForwarded ==
  \A h \in H : (Existing(h) /\ ~killed[h] /\ ~superseded[h] /\ onFinished[h] = 1)
     => \A i \in 1..Len(written[h]) : Forwarded(h, i)

\* C23: a start request rejected as invalid while a run is active leaves the
\* queue, the legitimate producer and self.proc as they were; and a registered
\* run that no start has superseded, with no kill request made, never has its
\* output refused: its thread does not enter the stale-producer kill.
ActiveRun == proc # None /\ Alive(proc)
Rejected == nInvalid' = nInvalid + 1
C23_RejectedStartKeepsQueue ==
  (Rejected /\ ActiveRun) =>
     /\ text_queue' = text_queue
     /\ text_queue_proc' = text_queue_proc
     /\ proc' = proc
C23_RegisteredRunNotRefused ==
  \A h \in H :
     (h = proc /\ upc = "idle" /\ ~superseded[h] /\ nKill = 0 /\ tpc[h] = "call")
        => tpc'[h] # "k_set"
C23_RejectedStartLeavesRun ==
  [][C23_RejectedStartKeepsQueue /\ C23_RegisteredRunNotRefused]_vars

\* one append_string call that took its string: the tail block it found, and
\* whether the string was merged into it or became a new last block
AppendedOne ==
  /\ nStart' = nStart
  /\ Len(accepted') = Len(accepted) + 1
  /\ SubSeq(accepted', 1, Len(accepted)) = accepted
TailBlock == IF text_queue = << >> THEN << >> ELSE text_queue[Len(text_queue)]
BlocksBefore == IF text_queue = << >> THEN 1 ELSE Len(text_queue)
MergedIntoTail ==
  /\ Len(text_queue') = BlocksBefore
  /\ text_queue'[Len(text_queue')] = Append(TailBlock, accepted'[Len(accepted')])
StartedNewBlock ==
  /\ Len(text_queue') = BlocksBefore + 1
  /\ text_queue'[Len(text_queue')] = << accepted'[Len(accepted')] >>
  /\ text_queue'[BlocksBefore] = TailBlock

\* C26 as stated: the string is merged into the tail block unless the merged
\* block would exceed BLOCK_SIZE; a string that exactly fills the block is
\* merged.
C26_NewBlockOnlyOverCap ==
  [][AppendedOne =>
       LET slen == accepted'[Len(accepted')].len
       IN  /\ MergedIntoTail <=> BlockLen(TailBlock) + slen <= BLOCK_SIZE
           /\ StartedNewBlock <=> BlockLen(TailBlock) + slen > BLOCK_SIZE]_vars

\* C26 as amended: the string is merged into the tail block exactly when the
\* merged block stays below BLOCK_SIZE; a string that would bring the block to
\* BLOCK_SIZE or beyond, also one that exactly fills it, becomes a new block
\* behind the tail block, which is left as it was.
C26_NewBlockAtCap ==
  [][AppendedOne =>
       LET slen == accepted'[Len(accepted')].len
       IN  /\ MergedIntoTail <=> BlockLen(TailBlock) + slen < BLOCK_SIZE
           /\ StartedNewBlock <=> BlockLen(TailBlock) + slen >= BLOCK_SIZE]_vars

\* a string that exactly filled the room left in a block which already held
\* text sits in a block of its own behind it
C26_Witness ==
  \E i \in 1..(Len(text_queue) - 1) :
     /\ text_queue[i] # << >> /\ Len(text_queue[i + 1]) = 1
     /\ BlockLen(text_queue[i]) + BlockLen(text_queue[i + 1]) = BLOCK_SIZE

\* C25: a thread is inside append_string's with-block only while it holds
\* the lock, so at most one is; while one is inside, no drain runs and no
\* run() call clears the queue, and the queue is changed by that thread only;
\* and the tail block a thread has popped is re-appended, with the string
\* merged into it, onto the queue exactly as the pop left it.
CriticalPcs == {"as_chk", "as_fit", "as_merge", "k_set", "k_rm", "k_det"}
Inside(h) == tpc[h] \in CriticalPcs
DrainRan == svcPending' = svcPending - 1
QueueCleared == Requests' # Requests
C25_MutualExclusion ==
  [][/\ \A h \in H : Inside(h)' => text_queue_lock' = h
     /\ (DrainRan \/ QueueCleared) => \A h \in H : ~Inside(h)
     /\ \A h \in H :
          (Inside(h) /\ text_queue' # text_queue) => tpc'[h] # tpc[h]
     /\ \A h \in H :
          (tpc[h] = "as_merge" /\ tpc'[h] # "as_merge")
             => text_queue' = Append(text_queue, Append(cur[h], Line(h)))]_vars

\* a thread holds the tail block it popped, which held an earlier line, while
\* a drain is scheduled and waits for the lock
C25_Witness ==
  \E h \in H : /\ tpc[h] = "as_merge" /\ cur[h] # << >>
               /\ text_queue_lock = h
               /\ svcPending > 0 /\ upc = "idle"

\* C22: a string that append_string has put into the queue leaves it only by
\* a drain, which hands it to the panel, or by the queue clear of a run() call;
\* each drain hands over exactly the head block; while the queue holds a block
\* a drain is scheduled, or is about to be by the very call that found the
\* queue empty or the drain that found it non-empty (no lost wake-up); and so
\* every string in the queue eventually leaves it.
QueueStrings ==
  { DataString(h, n, line) : h \in H, n \in 1..LockLines, line \in LockLineSet }
    \cup { Text(h, "finished", FinishedLen) : h \in H }
Among(s, seq) == \E i \in 1..Len(seq) : seq[i] = s
Queued(s) == Among(s, Flatten(text_queue)) \/ \E h \in H : Among(s, cur[h])
AboutToSchedule ==
  \/ upc = "svc_post"
  \/ \E h \in H : tpc[h] \in {"as_fit", "as_merge", "as_out"} /\ was_empty[h]
DrainScheduled == text_queue # << >> => (svcPending > 0 \/ AboutToSchedule)
DrainsOneBlock ==
  DrainRan =>
     IF text_queue = << >>
       THEN text_queue' = << >> /\ panel' = panel
       ELSE text_queue' = Tail(text_queue) /\ panel' = panel \o Head(text_queue)
LeavesByDrainOrClear ==
  \A s \in QueueStrings :
     (Queued(s) /\ ~Queued(s)') => (QueueCleared \/ (DrainRan /\ Among(s, panel')))
C22_EveryBlockDelivered ==
  /\ []DrainScheduled
  /\ [][DrainsOneBlock /\ LeavesByDrainOrClear]_vars
  /\ \A s \in QueueStrings : Queued(s) ~> ~Queued(s)

\* a run's two lines and its summary went through the queue in more than one
\* block and are all in the panel, with no drain left
C22_Witness ==
  /\ text_queue = << >> /\ svcPending = 0 /\ upc = "idle"
  /\ Len(panel) = 3 /\ panel = accepted
  /\ panel[1].len = 1 /\ panel[2].len = BLOCK_SIZE
  /\ panel[3].kind = "finished"

\* C24: the panel of a window holds only lines of runs that window started;
\* and a start or kill request in one window removes from the queue no line
\* of a run another window started.
OwnLine(w, s) == s.kind = "data" => s.src \in instances[w].started
Requested(w) ==
  (nStart' # nStart \/ nKill' # nKill) /\ instances'[w] # instances[w]
C24_WindowsApart ==
  [][/\ \A w \in Windows :
          \A i \in 1..Len(instances'[w].output_view) :
             OwnLine(w, instances'[w].output_view[i])
     /\ \A w \in Windows : Requested(w) =>
          \A i \in 1..Len(Flatten(text_queue)) :
             LET s == Flatten(text_queue)[i]
             IN  OwnLine(w, s) \/ Among(s, Flatten(text_queue'))]_vars

====
